---- MODULE Spec2Model ----
(***************************************************************************)
(* Model of the graph-annotation pipeline of raster-to-graph:              *)
(*   src/src/data_utils/graph.py  (GraphAnnotator)                         *)
(*   src/get_data.py              (process_file_pair, process_split_set)   *)
(*                                                                         *)
(* Points are pairs <<x, y>> of integers.  A Python dict is modelled as a  *)
(* sequence of <<key, value>> pairs in insertion order, a Python list as a *)
(* sequence, and the 4-character connectivity string as a sequence of four *)
(* one-character strings.                                                  *)
(***************************************************************************)
EXTENDS Integers, Sequences, FiniteSets, TLC

(***************************************************************************)
(* Bounds of the model.                                                    *)
(***************************************************************************)
\* segment endpoints are the first NumPoints pixels of the two-row grid
\* (0,0), (0,1), (1,0), (1,1), (2,0), ...
NumPoints == 4
\* a segment list handed to one GraphAnnotator holds at most MaxSegs segments
MaxSegs == 3
\* the caller-supplied annotation counter is 0 or MaxStartId
MaxStartId == 5
\* coordinates of the pairs handed to get_direction_index alone
MaxDirCoord == 3
\* create_annotations is studied on lists of at most MaxAnnotSegs segments
MaxAnnotSegs == 2
\* the raw data folder holds at most MaxFiles matched image/annotation pairs
MaxFiles == 3

Points == {p \in (0..NumPoints) \X (0..1) : 2 * p[1] + p[2] < NumPoints}
Segs == Points \X Points
SegLists == UNION {[1..n -> Segs] : n \in 0..MaxSegs}

(***************************************************************************)
(* Python dict and list operations used by the code.                       *)
(***************************************************************************)
DictKeys(d) == [i \in 1..Len(d) |-> d[i][1]]

DictHas(d, k) == \E i \in 1..Len(d) : d[i][1] = k

DictGet(d, k) == d[CHOOSE i \in 1..Len(d) : d[i][1] = k][2]

\* d[k] = v : an existing key keeps its position, a new key is appended
DictSet(d, k, v) ==
    IF DictHas(d, k)
    THEN [i \in 1..Len(d) |-> IF d[i][1] = k THEN <<k, v>> ELSE d[i]]
    ELSE Append(d, <<k, v>>)

\* lst[idx] = v with Python's 0-based index, a negative index counting
\* from the end
ListSet(lst, idx, v) ==
    LET pos == IF idx < 0 THEN idx + Len(lst) + 1 ELSE idx + 1
    IN  [lst EXCEPT ![pos] = v]

(***************************************************************************)
(* GraphAnnotator: constants and pure helpers.                             *)
(***************************************************************************)
\* the "no neighbor" value (-1, -1)
NoNeighbor == <<-1, -1>>

\* the reserved key 'quatree' of coordinate_graph
QuatreeKey == <<"quatree">>

init_neighbors_as_coordinates == <<NoNeighbor, NoNeighbor, NoNeighbor, NoNeighbor>>

\* init_neighbors_as_code, one character short
init_neighbors_as_code_short == <<"0", "0", "0">>

init_neighbors_as_code == <<"0", "0", "0", "0">>

AllCodes == [1..4 -> {"0", "1"}]

edges_rev_binary ==
    [c \in AllCodes |->
        (IF c[1] = "1" THEN 8 ELSE 0) + (IF c[2] = "1" THEN 4 ELSE 0)
      + (IF c[3] = "1" THEN 2 ELSE 0) + (IF c[4] = "1" THEN 1 ELSE 0)]

\* the fixed table from connectivity string to edge code
edges_rev ==
       <<"0", "0", "0", "0">> :> 0  @@ <<"0", "0", "0", "1">> :> 1
    @@ <<"0", "0", "1", "0">> :> 2  @@ <<"0", "0", "1", "1">> :> 3
    @@ <<"0", "1", "0", "0">> :> 4  @@ <<"0", "1", "1", "0">> :> 5
    @@ <<"0", "1", "1", "1">> :> 6  @@ <<"1", "0", "0", "0">> :> 7
    @@ <<"1", "0", "0", "1">> :> 8  @@ <<"1", "0", "1", "1">> :> 9
    @@ <<"1", "1", "0", "0">> :> 10 @@ <<"1", "1", "0", "1">> :> 11
    @@ <<"1", "1", "1", "0">> :> 12 @@ <<"1", "1", "1", "1">> :> 13
    @@ <<"0", "1", "0", "1">> :> 14 @@ <<"1", "0", "1", "0">> :> 15

\* np.degrees(np.arctan2(dy, dx)) on integers, in steps of 22.5 degrees:
\* an even value 2k is the angle 45k degrees exactly, an odd value 2k+1 is
\* an angle strictly between 45k and 45(k+1) degrees.  arctan2(0, 0) is 0
\* and arctan2(0, dx) for dx < 0 is +180 degrees.
arctan2_degrees(dy, dx) ==
    IF dy = 0 THEN (IF dx >= 0 THEN 0 ELSE 8)
    ELSE IF dy > 0
    THEN (IF dx > 0 THEN (IF dy < dx THEN 1 ELSE IF dy = dx THEN 2 ELSE 3)
          ELSE IF dx = 0 THEN 4
          ELSE (IF dy > -dx THEN 5 ELSE IF dy = -dx THEN 6 ELSE 7))
    ELSE (IF dx > 0 THEN (IF -dy < dx THEN -1 ELSE IF -dy = dx THEN -2 ELSE -3)
          ELSE IF dx = 0 THEN -4
          ELSE (IF -dy > -dx THEN -5 ELSE IF -dy = -dx THEN -6 ELSE -7))

\* 45 and 135 degrees in the unit of arctan2_degrees
Deg45 == 2
Deg135 == 6

get_direction_index_strict(origin, point) ==
    LET dx == point[1] - origin[1]
        dy == origin[2] - point[2]
        angle == arctan2_degrees(dy, dx)
    IN  IF -Deg45 < angle /\ angle < Deg45 THEN 3
        ELSE IF Deg45 < angle /\ angle < Deg135 THEN 0
        ELSE IF angle > Deg135 \/ angle < -Deg135 THEN 1
        ELSE IF -Deg135 < angle /\ angle < -Deg45 THEN 2
        ELSE -1

\* get_direction_index, Left only for the angles below -135 degrees
get_direction_index_left_below_only(origin, point) ==
    LET dx == point[1] - origin[1]
        dy == origin[2] - point[2]
        angle == arctan2_degrees(dy, dx)
    IN  IF -Deg45 <= angle /\ angle <= Deg45 THEN 3
        ELSE IF Deg45 < angle /\ angle <= Deg135 THEN 0
        ELSE IF angle < -Deg135 THEN 1
        ELSE IF -Deg135 <= angle /\ angle < -Deg45 THEN 2
        ELSE -1

\* 0: Up, 1: Left, 2: Down, 3: Right, -1: undefined
get_direction_index(origin, point) ==
    LET dx == point[1] - origin[1]
        dy == origin[2] - point[2]
        angle == arctan2_degrees(dy, dx)
    IN  IF -Deg45 <= angle /\ angle <= Deg45 THEN 3
        ELSE IF Deg45 < angle /\ angle <= Deg135 THEN 0
        ELSE IF angle > Deg135 \/ angle < -Deg135 THEN 1
        ELSE IF -Deg135 <= angle /\ angle < -Deg45 THEN 2
        ELSE -1

\* get_edge_code: the table value, or a ValueError for a string that is
\* not in the table
get_edge_code_raises(edges_class) == edges_class \notin DOMAIN edges_rev

get_edge_code(edges_class) == edges_rev[edges_class]

(***************************************************************************)
(* One iteration of the segment loop of build_graphs.                      *)
(***************************************************************************)
coordinate_graph_step_keep_first(cg, seg) ==
    LET pt1 == seg[1]
        pt2 == seg[2]
        cg1 == IF DictHas(cg, pt1) THEN cg
               ELSE DictSet(cg, pt1, init_neighbors_as_coordinates)
        cg2 == IF DictHas(cg1, pt2) THEN cg1
               ELSE DictSet(cg1, pt2, init_neighbors_as_coordinates)
        d12 == get_direction_index(pt1, pt2)
        d21 == get_direction_index(pt2, pt1)
        cg3 == IF DictGet(cg2, pt1)[d12 + 1] = NoNeighbor
               THEN DictSet(cg2, pt1, ListSet(DictGet(cg2, pt1), d12, pt2)) ELSE cg2
    IN  IF DictGet(cg3, pt2)[d21 + 1] = NoNeighbor
        THEN DictSet(cg3, pt2, ListSet(DictGet(cg3, pt2), d21, pt1)) ELSE cg3

\* coordinate_graph_step, the slot of pt2 left as it was
coordinate_graph_step_pt1_only(cg, seg) ==
    LET pt1 == seg[1]
        pt2 == seg[2]
        cg1 == IF DictHas(cg, pt1) THEN cg
               ELSE DictSet(cg, pt1, init_neighbors_as_coordinates)
        cg2 == IF DictHas(cg1, pt2) THEN cg1
               ELSE DictSet(cg1, pt2, init_neighbors_as_coordinates)
        dir_idx_pt1_to_pt2 == get_direction_index(pt1, pt2)
    IN  DictSet(cg2, pt1, ListSet(DictGet(cg2, pt1), dir_idx_pt1_to_pt2, pt2))

coordinate_graph_step(cg, seg) ==
    LET pt1 == seg[1]
        pt2 == seg[2]
        cg1 == IF DictHas(cg, pt1) THEN cg
               ELSE DictSet(cg, pt1, init_neighbors_as_coordinates)
        cg2 == IF DictHas(cg1, pt2) THEN cg1
               ELSE DictSet(cg1, pt2, init_neighbors_as_coordinates)
        dir_idx_pt1_to_pt2 == get_direction_index(pt1, pt2)
        dir_idx_pt2_to_pt1 == get_direction_index(pt2, pt1)
        cg3 == DictSet(cg2, pt1, ListSet(DictGet(cg2, pt1), dir_idx_pt1_to_pt2, pt2))
    IN  DictSet(cg3, pt2, ListSet(DictGet(cg3, pt2), dir_idx_pt2_to_pt1, pt1))

code_graph_step_pt1_only(code, seg) ==
    LET pt1 == seg[1]
        pt2 == seg[2]
        c1 == IF DictHas(code, pt1) THEN code
              ELSE DictSet(code, pt1, init_neighbors_as_code)
        c2 == IF DictHas(c1, pt2) THEN c1
              ELSE DictSet(c1, pt2, init_neighbors_as_code)
        dir_idx_pt1_to_pt2 == get_direction_index(pt1, pt2)
    IN  DictSet(c2, pt1, ListSet(DictGet(c2, pt1), dir_idx_pt1_to_pt2, "1"))

code_graph_step(code, seg) ==
    LET pt1 == seg[1]
        pt2 == seg[2]
        c1 == IF DictHas(code, pt1) THEN code
              ELSE DictSet(code, pt1, init_neighbors_as_code)
        c2 == IF DictHas(c1, pt2) THEN c1
              ELSE DictSet(c1, pt2, init_neighbors_as_code)
        dir_idx_pt1_to_pt2 == get_direction_index(pt1, pt2)
        dir_idx_pt2_to_pt1 == get_direction_index(pt2, pt1)
        c3 == DictSet(c2, pt1, ListSet(DictGet(c2, pt1), dir_idx_pt1_to_pt2, "1"))
    IN  DictSet(c3, pt2, ListSet(DictGet(c3, pt2), dir_idx_pt2_to_pt1, "1"))

(***************************************************************************)
(* Origin selection of build_graphs.                                       *)
(***************************************************************************)
\* np.hypot(p[0], p[1]) is compared only with other values of itself; the
\* squared length orders points exactly as the length does
hypot(x, y) == x * x + y * y

valid_points(cg) ==
    LET NotQuatree(pt) == pt # QuatreeKey
    IN  SelectSeq(DictKeys(cg), NotQuatree)

\* min(points, key=...) returns the first element of least key
min_by_hypot_last(pts) ==
    pts[CHOOSE i \in 1..Len(pts) :
            /\ \A j \in 1..Len(pts) : hypot(pts[i][1], pts[i][2]) <= hypot(pts[j][1], pts[j][2])
            /\ \A j \in (i + 1)..Len(pts) : hypot(pts[j][1], pts[j][2]) > hypot(pts[i][1], pts[i][2])]

min_by_hypot(pts) ==
    pts[CHOOSE i \in 1..Len(pts) :
            /\ \A j \in 1..Len(pts) : hypot(pts[i][1], pts[i][2]) <= hypot(pts[j][1], pts[j][2])
            /\ \A j \in 1..(i - 1) : hypot(pts[j][1], pts[j][2]) > hypot(pts[i][1], pts[i][2])]

(***************************************************************************)
(* State.                                                                  *)
(***************************************************************************)
VARIABLES
    pc,                \* position of the running GraphAnnotator call
    segments,          \* self.segments
    seg_idx,           \* number of segments the loop of build_graphs has consumed
    coordinate_graph,  \* self.coordinate_graph
    code_graph,        \* self.code_graph
    origin,            \* local origin of build_graphs
    visited,           \* local visited
    queue,             \* local queue: sequence of <<point, level>>
    quatree,           \* local quatree: dict level -> list of points
    annotations,       \* self.annotations
    annot_id,          \* local annot_id of create_annotations
    key_idx,           \* number of code_graph items create_annotations has consumed
    start_id,          \* the counter the caller passed to create_annotations
    d_origin, d_point, d_result,   \* one call of get_direction_index
    e_class, e_code, e_pc,         \* two calls of get_edge_code
    m_pc,              \* position of main / process_split_set of get_data.py
    raw_data,          \* the files of the raw data folder main lists
    matched_files,     \* main: dict split set -> <<image_paths, annot_paths>>
    split_idx,         \* main: number of split sets the loop has taken
    file_idx,          \* process_split_set: number of file pairs the loop has taken
    split_annot_id,    \* process_split_set: annot_id
    output_json,       \* process_split_set: output_json
    image_ids,         \* process_split_set: image_ids
    saved_json,        \* the instances_<split>.json files written so far
    file_log,          \* the segment lists read for the files of the current split set
    reader,            \* one call of GeometryProcessor._read_coordinates: its locals
    geom,              \* one GeometryProcessor: its fields
    scaler,            \* calls of GeometryProcessor.scale_segments: arguments and results
    caller             \* the code that invokes a GraphAnnotator: what its calls returned

graphVars == <<pc, segments, seg_idx, coordinate_graph, code_graph, origin,
               visited, queue, quatree, annotations, annot_id, key_idx, start_id>>
dirVars == <<d_origin, d_point, d_result>>
edgeVars == <<e_class, e_code, e_pc>>
splitVars == <<m_pc, raw_data, matched_files, split_idx, file_idx, split_annot_id, output_json,
               image_ids, saved_json, file_log>>
geomVars == <<reader, geom, scaler, caller>>
vars == <<graphVars, dirVars, edgeVars, splitVars, geomVars>>

\* image_id and category_id of the annotator under study
image_id == "img"
category_id == 1

GraphIdle ==
    /\ pc = "idle" /\ segments = <<>> /\ seg_idx = 0
    /\ coordinate_graph = <<>> /\ code_graph = <<>>
    /\ origin = NoNeighbor /\ visited = {} /\ queue = <<>> /\ quatree = <<>>
    /\ annotations = <<>> /\ annot_id = 0 /\ key_idx = 0 /\ start_id = 0

DirIdle == d_origin = <<0, 0>> /\ d_point = <<0, 0>> /\ d_result = -2

EdgeIdle == e_class = <<>> /\ e_code = <<>> /\ e_pc = "idle"

GeomIdle ==
    /\ reader = [pc |-> "idle"]
    /\ geom = [pc |-> "idle"]
    /\ scaler = [pc |-> "idle"]
    /\ caller = [pc |-> "idle"]

SplitIdle ==
    /\ m_pc = "idle" /\ raw_data = {} /\ matched_files = <<>> /\ split_idx = 0 /\ file_idx = 0
    /\ split_annot_id = 0 /\ output_json = [images |-> <<>>, annotations |-> <<>>]
    /\ image_ids = <<>> /\ saved_json = <<>> /\ file_log = <<>>

(***************************************************************************)
(* GraphAnnotator.__init__, build_graphs, create_annotations, step by step *)
(***************************************************************************)
\* __init__ followed by the call of build_graphs
Init ==
    /\ segments \in SegLists
    /\ pc = "build" /\ seg_idx = 0
    /\ coordinate_graph = <<>> /\ code_graph = <<>>
    /\ origin = NoNeighbor /\ visited = {} /\ queue = <<>> /\ quatree = <<>>
    /\ annotations = <<>> /\ annot_id = 0 /\ key_idx = 0 /\ start_id = 0
    /\ DirIdle /\ EdgeIdle /\ SplitIdle /\ GeomIdle

\* one iteration of "for pt1, pt2 in self.segments"
BuildSegment ==
    /\ pc = "build" /\ seg_idx < Len(segments)
    /\ seg_idx' = seg_idx + 1
    /\ coordinate_graph' = coordinate_graph_step(coordinate_graph, segments[seg_idx + 1])
    /\ code_graph' = code_graph_step(code_graph, segments[seg_idx + 1])
    /\ UNCHANGED <<pc, segments, origin, visited, queue, quatree, annotations,
                   annot_id, key_idx, start_id, dirVars, edgeVars, splitVars, geomVars>>

\* the loop is over: origin = min(valid_points, ...), which raises
\* ValueError on an empty list; then the BFS locals are initialised
SelectOrigin ==
    /\ pc = "build" /\ seg_idx = Len(segments)
    /\ IF valid_points(coordinate_graph) = <<>>
       THEN /\ pc' = "error"
            /\ UNCHANGED <<origin, visited, queue, quatree>>
       ELSE /\ pc' = "bfs"
            /\ origin' = min_by_hypot(valid_points(coordinate_graph))
            /\ visited' = {}
            /\ queue' = <<<<origin', 0>>>>
            /\ quatree' = <<>>
    /\ UNCHANGED <<segments, seg_idx, coordinate_graph, code_graph, annotations,
                   annot_id, key_idx, start_id, dirVars, edgeVars, splitVars, geomVars>>

\* quatree.setdefault(level, []).append(point)
quatree_add(qt, level, point) ==
    IF DictHas(qt, level)
    THEN DictSet(qt, level, Append(DictGet(qt, level), point))
    ELSE DictSet(qt, level, <<point>>)

bfs_enqueue_first_only(cg, point, level, seen) ==
    LET Wanted(neighbor) == neighbor # NoNeighbor /\ neighbor \notin seen
        nbrs == SelectSeq(DictGet(cg, point), Wanted)
    IN  [i \in 1..(IF Len(nbrs) > 0 THEN 1 ELSE 0) |-> <<nbrs[i], level + 1>>]

\* the entries one expansion appends to the queue, in slot order
bfs_enqueue(cg, point, level, seen) ==
    LET Wanted(neighbor) == neighbor # NoNeighbor /\ neighbor \notin seen
        nbrs == SelectSeq(DictGet(cg, point), Wanted)
    IN  [i \in 1..Len(nbrs) |-> <<nbrs[i], level + 1>>]

\* queue.popleft() gives the entry and the rest of the queue
queue_pop_right(q) == <<q[Len(q)], SubSeq(q, 1, Len(q) - 1)>>

queue_popleft(q) == <<Head(q), Tail(q)>>

\* "if point in visited: continue"
never_visited(point, seen) == FALSE

already_visited(point, seen) == point \in seen

\* one iteration of "while queue" on the locals queue, visited, quatree
bfs_iteration(cg, q, seen, qt) ==
    LET point == queue_popleft(q)[1][1]
        level == queue_popleft(q)[1][2]
        rest == queue_popleft(q)[2]
    IN  IF already_visited(point, seen)
        THEN [queue |-> rest, visited |-> seen, quatree |-> qt]
        ELSE [queue |-> rest \o bfs_enqueue(cg, point, level, seen \cup {point}),
              visited |-> seen \cup {point},
              quatree |-> quatree_add(qt, level, point)]

BfsStep ==
    /\ pc = "bfs" /\ queue # <<>>
    /\ LET after == bfs_iteration(coordinate_graph, queue, visited, quatree)
       IN  /\ queue' = after.queue
           /\ visited' = after.visited
           /\ quatree' = after.quatree
    /\ UNCHANGED <<pc, segments, seg_idx, coordinate_graph, code_graph, origin,
                   annotations, annot_id, key_idx, start_id, dirVars, edgeVars, splitVars, geomVars>>

\* the queue is empty: coordinate_graph['quatree'] = [quatree]; return
BfsReturn ==
    /\ pc = "bfs" /\ queue = <<>>
    /\ coordinate_graph' = DictSet(coordinate_graph, QuatreeKey, <<quatree>>)
    /\ pc' = "built"
    /\ UNCHANGED <<segments, seg_idx, code_graph, origin, visited, queue, quatree,
                   annotations, annot_id, key_idx, start_id, dirVars, edgeVars, splitVars, geomVars>>

\* the caller invokes create_annotations(annot_id) on the built graph
CallCreateAnnotations ==
    /\ pc = "built"
    /\ start_id' \in {0, MaxStartId}
    /\ annot_id' = start_id'
    /\ key_idx' = 0
    /\ pc' = "annot"
    /\ UNCHANGED <<segments, seg_idx, coordinate_graph, code_graph, origin, visited,
                   queue, quatree, annotations, dirVars, edgeVars, splitVars, geomVars>>

\* the record create_annotations builds for one item of code_graph; the
\* "semantic" field is a random draw that no other field depends on and
\* is left out
annotation(img, cat, id, key, value) ==
    [image_id |-> img, category_id |-> cat, id |-> id, point |-> key,
     edge_code |-> get_edge_code(value)]

\* annot_id += 1
next_annot_id_same(id) == id

next_annot_id(id) == id + 1

\* one iteration of "for key, value in self.code_graph.items()"
AnnotateKey ==
    /\ pc = "annot" /\ key_idx < Len(code_graph)
    /\ LET key == code_graph[key_idx + 1][1]
           value == code_graph[key_idx + 1][2]
       IN  IF key = QuatreeKey
           THEN /\ key_idx' = key_idx + 1
                /\ UNCHANGED <<pc, annotations, annot_id>>
           ELSE IF get_edge_code_raises(value)
           THEN /\ pc' = "error"
                /\ UNCHANGED <<key_idx, annotations, annot_id>>
           ELSE /\ annotations' = Append(annotations,
                                         annotation(image_id, category_id, annot_id, key, value))
                /\ annot_id' = next_annot_id(annot_id)
                /\ key_idx' = key_idx + 1
                /\ pc' = pc
    /\ UNCHANGED <<segments, seg_idx, coordinate_graph, code_graph, origin, visited,
                   queue, quatree, start_id, dirVars, edgeVars, splitVars, geomVars>>

\* return self.annotations, annot_id
AnnotateReturn ==
    /\ pc = "annot" /\ key_idx = Len(code_graph)
    /\ pc' = "done"
    /\ UNCHANGED <<segments, seg_idx, coordinate_graph, code_graph, origin, visited,
                   queue, quatree, annotations, annot_id, key_idx, start_id, dirVars, edgeVars, splitVars, geomVars>>

Next ==
    \/ BuildSegment
    \/ SelectOrigin
    \/ BfsStep
    \/ BfsReturn

Spec == Init /\ [][Next]_vars

(***************************************************************************)
(* get_direction_index alone, on every pair of points of a small grid.     *)
(***************************************************************************)
DirPoints == (0..MaxDirCoord) \X (0..MaxDirCoord)

InitDir ==
    /\ d_origin \in DirPoints /\ d_point \in DirPoints /\ d_result = -2
    /\ GraphIdle /\ EdgeIdle /\ SplitIdle /\ GeomIdle

Classify ==
    /\ d_result = -2
    /\ d_result' = get_direction_index(d_origin, d_point)
    /\ UNCHANGED <<d_origin, d_point, graphVars, edgeVars, splitVars, geomVars>>

NextDir == Classify

SpecDir == InitDir /\ [][NextDir]_vars

(***************************************************************************)
(* get_edge_code alone, on every pair of strings of four characters over   *)
(* "0", "1" and a character that is neither.                               *)
(***************************************************************************)
EdgeInputs == [1..4 -> {"0", "1", "x"}]

InitEdge ==
    /\ e_class \in EdgeInputs \X EdgeInputs
    /\ e_code = <<>> /\ e_pc = "call"
    /\ GraphIdle /\ DirIdle /\ SplitIdle /\ GeomIdle

\* both lookups return
LookupBoth ==
    /\ e_pc = "call"
    /\ ~get_edge_code_raises(e_class[1]) /\ ~get_edge_code_raises(e_class[2])
    /\ e_code' = <<get_edge_code(e_class[1]), get_edge_code(e_class[2])>>
    /\ e_pc' = "returned"
    /\ UNCHANGED <<e_class, graphVars, dirVars, splitVars, geomVars>>

\* one of the lookups raises ValueError
LookupRaises ==
    /\ e_pc = "call"
    /\ ~(~get_edge_code_raises(e_class[1]) /\ ~get_edge_code_raises(e_class[2]))
    /\ e_pc' = "raised"
    /\ UNCHANGED <<e_class, e_code, graphVars, dirVars, splitVars, geomVars>>

NextEdge == LookupBoth \/ LookupRaises

SpecEdge == InitEdge /\ [][NextEdge]_vars

(***************************************************************************)
(* build_graphs and create_annotations as whole calls on a fresh           *)
(* GraphAnnotator, as process_file_pair makes them.                        *)
(***************************************************************************)
RECURSIVE fold_coordinate_graph(_)
fold_coordinate_graph(segs) ==
    IF segs = <<>> THEN <<>>
    ELSE coordinate_graph_step(fold_coordinate_graph(SubSeq(segs, 1, Len(segs) - 1)),
                               segs[Len(segs)])

RECURSIVE fold_code_graph(_)
fold_code_graph(segs) ==
    IF segs = <<>> THEN <<>>
    ELSE code_graph_step(fold_code_graph(SubSeq(segs, 1, Len(segs) - 1)), segs[Len(segs)])

\* min() of an empty list of points raises ValueError
build_graphs_raises(segs) == valid_points(fold_coordinate_graph(segs)) = <<>>

\* the while loop of build_graphs, run until the queue is empty
RECURSIVE bfs_loop(_, _, _, _)
bfs_loop(cg, q, seen, qt) ==
    IF q = <<>> THEN qt
    ELSE LET after == bfs_iteration(cg, q, seen, qt)
         IN  bfs_loop(cg, after.queue, after.visited, after.quatree)

\* return self.coordinate_graph, self.code_graph
build_graphs(segs) ==
    LET cg == fold_coordinate_graph(segs)
        root == min_by_hypot(valid_points(cg))
    IN  [coordinate_graph |-> DictSet(cg, QuatreeKey, <<bfs_loop(cg, <<<<root, 0>>>>, {}, <<>>)>>),
         code_graph |-> fold_code_graph(segs),
         origin |-> root]

RECURSIVE create_annotations_loop(_, _, _, _, _)
create_annotations_loop(code, k, anns, id, img) ==
    IF k > Len(code) THEN [annotations |-> anns, annot_id |-> id]
    ELSE IF code[k][1] = QuatreeKey
    THEN create_annotations_loop(code, k + 1, anns, id, img)
    ELSE create_annotations_loop(code, k + 1,
             Append(anns, annotation(img, category_id, id, code[k][1], code[k][2])),
             next_annot_id(id), img)

create_annotations_raises(code) ==
    \E k \in 1..Len(code) : code[k][1] # QuatreeKey /\ get_edge_code_raises(code[k][2])

\* on an annotator whose self.annotations is still empty
create_annotations(code, id, img) == create_annotations_loop(code, 1, <<>>, id, img)

(***************************************************************************)
(* create_annotations, step by step, on an annotator whose build_graphs    *)
(* has returned.                                                           *)
(***************************************************************************)
AnnotSegLists == UNION {[1..n -> Segs] : n \in 1..MaxAnnotSegs}

InitAnnot ==
    /\ segments \in AnnotSegLists
    /\ pc = "built" /\ seg_idx = Len(segments)
    /\ coordinate_graph = build_graphs(segments).coordinate_graph
    /\ code_graph = build_graphs(segments).code_graph
    /\ origin = build_graphs(segments).origin
    /\ queue = <<>>
    /\ quatree = DictGet(coordinate_graph, QuatreeKey)[1]
    /\ visited = UNION {{quatree[i][2][j] : j \in 1..Len(quatree[i][2])} : i \in 1..Len(quatree)}
    /\ annotations = <<>> /\ annot_id = 0 /\ key_idx = 0 /\ start_id = 0
    /\ DirIdle /\ EdgeIdle /\ SplitIdle /\ GeomIdle

NextAnnot == CallCreateAnnotations \/ AnnotateKey \/ AnnotateReturn

SpecAnnot == InitAnnot /\ [][NextAnnot]_vars

(***************************************************************************)
(* get_data.py: main, process_split_set, process_file_pair.                *)
(***************************************************************************)
\* a file of the raw data folder: base name and extension
ImagePath(name) == <<name, "png">>
AnnotPath(name) == <<name, "txt">>
\* Path(...).stem
Stem(path) == path[1]

\* list_matched_files_split, the valid slice starting one name early
list_matched_files_split_overlap(names_shuffled) ==
    LET total_files == Len(names_shuffled)
        train_end == (7 * total_files) \div 10
        valid_end == train_end + ((2 * total_files) \div 10)
        get_file_pairs(names) == <<[i \in 1..Len(names) |-> ImagePath(names[i])],
                                   [i \in 1..Len(names) |-> AnnotPath(names[i])]>>
    IN  << <<"train", get_file_pairs(SubSeq(names_shuffled, 1, train_end))>>,
           <<"valid", get_file_pairs(SubSeq(names_shuffled, IF train_end = 0 THEN 1 ELSE train_end,
                                             valid_end))>>,
           <<"test", get_file_pairs(SubSeq(names_shuffled, valid_end + 1, total_files))>> >>

\* the slicing of list_matched_files: int(0.7 * total) and int(0.2 * total)
\* are the integer parts of 7 * total / 10 and 2 * total / 10
list_matched_files_split(names_shuffled) ==
    LET total_files == Len(names_shuffled)
        train_end == (7 * total_files) \div 10
        valid_end == train_end + ((2 * total_files) \div 10)
        get_file_pairs(names) == <<[i \in 1..Len(names) |-> ImagePath(names[i])],
                                   [i \in 1..Len(names) |-> AnnotPath(names[i])]>>
    IN  << <<"train", get_file_pairs(SubSeq(names_shuffled, 1, train_end))>>,
           <<"valid", get_file_pairs(SubSeq(names_shuffled, train_end + 1, valid_end))>>,
           <<"test", get_file_pairs(SubSeq(names_shuffled, valid_end + 1, total_files))>> >>

\* a raw data folder holds files of at most MaxFiles base names, each an
\* image or an annotation file
Folders == SUBSET ((1..MaxFiles) \X {"png", "txt"})

\* the keys of image_files_dict and annot_files_dict after the listing
image_files_dict_keys(folder) == {Stem(file) : file \in {f \in folder : f[2] = "png"}}
annot_files_dict_keys(folder) == {Stem(file) : file \in {f \in folder : f[2] = "txt"}}

\* list(set(...).intersection(...)) followed by random.shuffle: any order
\* of the common base names
common_base_names(folder) ==
    LET common == image_files_dict_keys(folder) \cap annot_files_dict_keys(folder)
    IN  {names \in [1..Cardinality(common) -> common] :
            \A i, j \in 1..Cardinality(common) : names[i] = names[j] => i = j}

\* the segment lists an annotation file may give after extraction and
\* scaling: none, one degenerate segment, one segment, a path, a triangle
SampleSegLists ==
    { <<>>,
      <<<<<<0, 0>>, <<0, 0>>>>>>,
      <<<<<<0, 0>>, <<1, 0>>>>>>,
      <<<<<<0, 1>>, <<0, 0>>>>, <<<<0, 0>>, <<1, 0>>>>>>,
      <<<<<<0, 0>>, <<1, 0>>>>, <<<<0, 0>>, <<0, 1>>>>, <<<<1, 0>>, <<0, 1>>>>>> }

\* what process_image, GeometryProcessor(...), split_edges_into_segments
\* and scale_segments (get_data.py lines 33 to 53) come to for one file
\* pair: an exception, or the scaled segment list.  The module
\* src.data_utils.geometry that get_data.py imports is not among the
\* sources, and process_image of data_utils/img_manip.py returns five
\* values where line 33 unpacks three: with that process_image the
\* exception is the only outcome.
FileOutcomes ==
    {[raised |-> TRUE, segments |-> <<>>]}
        \cup {[raised |-> FALSE, segments |-> sl] : sl \in SampleSegLists}

process_file_pair_raises(outcome) ==
    \/ outcome.raised
    \/ build_graphs_raises(outcome.segments)
    \/ create_annotations_raises(build_graphs(outcome.segments).code_graph)

\* return image_info, annotations, annot_id, image_id (the height and
\* width of image_info are those of the configured resolution and are
\* left out)
process_file_pair(raw_img_path, annot_id_arg, outcome) ==
    LET img == Stem(raw_img_path)
        made == create_annotations(build_graphs(outcome.segments).code_graph, annot_id_arg, img)
    IN  [image_info |-> [id |-> img, file_name |-> raw_img_path],
         annotations |-> made.annotations,
         annot_id |-> made.annot_id,
         image_id |-> img]

\* "..., annot_id, ... = process_file_pair(..., annot_id, ...)"
returned_annot_id_dropped(old, returned) == old

returned_annot_id(old, returned) == returned

\* an exception of process_file_pair caught in the loop, which goes on
\* to the next file
exception_in_file_loop_skipped(idx) == [m_pc |-> "split", file_idx |-> idx + 1]

\* an exception of process_file_pair inside the file loop: the loop has
\* no except clause, so the exception leaves process_split_set and main
exception_in_file_loop(idx) == [m_pc |-> "aborted", file_idx |-> idx]

\* main after list_matched_files
InitSplit ==
    /\ raw_data \in Folders
    /\ \E names \in common_base_names(raw_data) :
          matched_files = list_matched_files_split(names)
    /\ m_pc = "main" /\ split_idx = 0 /\ file_idx = 0 /\ split_annot_id = 0
    /\ output_json = [images |-> <<>>, annotations |-> <<>>]
    /\ image_ids = <<>> /\ saved_json = <<>> /\ file_log = <<>>
    /\ GraphIdle /\ DirIdle /\ EdgeIdle /\ GeomIdle

\* main takes the next split set and process_split_set starts on it
StartSplit ==
    /\ m_pc = "main" /\ split_idx < Len(matched_files)
    /\ split_idx' = split_idx + 1
    /\ output_json' = [images |-> <<>>, annotations |-> <<>>]
    /\ split_annot_id' = 0
    /\ image_ids' = <<>>
    /\ file_idx' = 0
    /\ file_log' = <<>>
    /\ m_pc' = "split"
    /\ UNCHANGED <<raw_data, matched_files, saved_json, graphVars, dirVars, edgeVars, geomVars>>

\* one iteration of "for image_no, files in enumerate(zip(image_paths,
\* annot_paths))"; an exception of process_file_pair leaves
\* process_split_set and main
ProcessFile ==
    /\ m_pc = "split"
    /\ LET image_paths == matched_files[split_idx][2][1]
           annot_paths == matched_files[split_idx][2][2]
       IN  /\ file_idx < Len(image_paths) /\ file_idx < Len(annot_paths)
           /\ \E outcome \in FileOutcomes :
                IF process_file_pair_raises(outcome)
                THEN /\ m_pc' = exception_in_file_loop(file_idx).m_pc
                     /\ file_idx' = exception_in_file_loop(file_idx).file_idx
                     /\ UNCHANGED <<split_annot_id, output_json, image_ids, file_log>>
                ELSE LET got == process_file_pair(image_paths[file_idx + 1],
                                                  split_annot_id, outcome)
                     IN  /\ split_annot_id' = returned_annot_id(split_annot_id, got.annot_id)
                         /\ output_json' =
                               [images |-> Append(output_json.images, got.image_info),
                                annotations |-> output_json.annotations \o got.annotations]
                         /\ image_ids' = Append(image_ids, got.image_id)
                         /\ file_idx' = file_idx + 1
                         /\ file_log' = Append(file_log, outcome.segments)
                         /\ m_pc' = m_pc
    /\ UNCHANGED <<raw_data, matched_files, split_idx, saved_json, graphVars, dirVars, edgeVars, geomVars>>

\* the loop is over: json.dump(output_json) and return to main
FinishSplit ==
    /\ m_pc = "split"
    /\ LET image_paths == matched_files[split_idx][2][1]
           annot_paths == matched_files[split_idx][2][2]
       IN  ~(file_idx < Len(image_paths) /\ file_idx < Len(annot_paths))
    /\ saved_json' = DictSet(saved_json, matched_files[split_idx][1], output_json)
    /\ m_pc' = "main"
    /\ UNCHANGED <<raw_data, matched_files, split_idx, file_idx, split_annot_id, output_json,
                   image_ids, file_log, graphVars, dirVars, edgeVars, geomVars>>

\* every split set is done
FinishMain ==
    /\ m_pc = "main" /\ split_idx = Len(matched_files)
    /\ m_pc' = "finished"
    /\ UNCHANGED <<raw_data, matched_files, split_idx, file_idx, split_annot_id, output_json,
                   image_ids, saved_json, file_log, graphVars, dirVars, edgeVars, geomVars>>

NextSplit == StartSplit \/ ProcessFile \/ FinishSplit \/ FinishMain

SpecSplit == InitSplit /\ [][NextSplit]_vars

(***************************************************************************)
(* src/src/utils/geometry.py: GeometryProcessor.                           *)
(*                                                                         *)
(* The polygons under study are rectangles with sides along the axes and   *)
(* integer corners, traversed either way round.  On such input every       *)
(* point where two exterior rings meet has integer coordinates, so the     *)
(* int() truncations of split_edges_into_segments change nothing.  The     *)
(* shapely operations are modelled by what they return on such input.      *)
(***************************************************************************)
\* polygon corners have coordinates in 0..MaxCoord
MaxCoord == 2
\* an annotation file gives at most MaxPolys polygons
MaxPolys == 2

Rect(x1, y1, x2, y2) == <<<<x1, y1>>, <<x2, y1>>, <<x2, y2>>, <<x1, y2>>>>

Reversed(s) == [i \in 1..Len(s) |-> s[Len(s) + 1 - i]]

Rectangles ==
    {Rect(c[1], c[2], c[3], c[4]) :
        c \in {c \in (0..MaxCoord) \X (0..MaxCoord) \X (0..MaxCoord) \X (0..MaxCoord) :
                  c[1] < c[3] /\ c[2] < c[4]}}

\* a coordinate set of two points, of which Polygon makes no ring
TwoPoints == <<<<0, 0>>, <<1, 0>>>>

PolygonCoords == Rectangles \cup {Reversed(r) : r \in Rectangles} \cup {TwoPoints}

CoordinateLists == UNION {[1..n -> PolygonCoords] : n \in 0..MaxPolys}

\* the elements of a sequence
Range(s) == {s[i] : i \in 1..Len(s)}

\* zip(coords, coords[1:])
ConsecutivePairs(coords) == [i \in 1..(Len(coords) - 1) |-> <<coords[i], coords[i + 1]>>]

RECURSIVE Flatten(_)
Flatten(ss) == IF ss = <<>> THEN <<>> ELSE Head(ss) \o Flatten(Tail(ss))

\* Polygon(coords) raises ValueError on fewer than 3 coordinate tuples
Polygon_raises(coords) == Len(coords) < 3

\* the exterior ring without its closing coordinate
exterior_coords_open(coords) == coords

\* Polygon(coords).exterior.coords: the ring, closed if it was given open
exterior_coords(coords) ==
    IF coords[Len(coords)] = coords[1] THEN coords ELSE Append(coords, coords[1])

\* _create_polygons: the empty coordinate sets are left out
create_polygons_raises(coordinates) ==
    \E i \in 1..Len(coordinates) : coordinates[i] # <<>> /\ Polygon_raises(coordinates[i])

create_polygons(coordinates) ==
    LET NonEmpty(coords) == coords # <<>>
    IN  SelectSeq(coordinates, NonEmpty)

\* _extract_edges: one closed LineString per polygon
extract_edges(polygons) == [i \in 1..Len(polygons) |-> exterior_coords(polygons[i])]

\* linemerge joins lines that meet end to end at a point where exactly two
\* line ends meet.  Both ends of a closed ring are at one point, so a set
\* of closed rings has nothing to join and comes back as it was given;
\* the wrapping of a single LineString into a MultiLineString gives the
\* same sequence of lines.
merge_edges(lines) == lines

\* the lattice points of the segment from a to b
PointsOnSeg(a, b) ==
    LET lox == IF a[1] < b[1] THEN a[1] ELSE b[1]
        hix == IF a[1] < b[1] THEN b[1] ELSE a[1]
        loy == IF a[2] < b[2] THEN a[2] ELSE b[2]
        hiy == IF a[2] < b[2] THEN b[2] ELSE a[2]
    IN  {p \in (lox..hix) \X (loy..hiy) :
            (b[1] - a[1]) * (p[2] - a[2]) = (b[2] - a[2]) * (p[1] - a[1])}

PointsOnLine(line) ==
    UNION {PointsOnSeg(line[i], line[i + 1]) : i \in 1..(Len(line) - 1)}

\* two axis-parallel segments with two common points run along each other
SegsOverlap(s, t) ==
    Cardinality(PointsOnSeg(s[1], s[2]) \cap PointsOnSeg(t[1], t[2])) >= 2

LinesOverlap(line1, line2) ==
    \E i \in 1..(Len(line1) - 1) : \E j \in 1..(Len(line2) - 1) :
        SegsOverlap(<<line1[i], line1[i + 1]>>, <<line2[j], line2[j + 1]>>)

\* edge1.intersection(edge2): its type and, for Point and MultiPoint,
\* its points.  Lines that run along each other somewhere give a
\* LineString, a MultiLineString or a GeometryCollection.
intersection(line1, line2) ==
    LET common == PointsOnLine(line1) \cap PointsOnLine(line2)
    IN  IF LinesOverlap(line1, line2) THEN [geom_type |-> "Linear", points |-> {}]
        ELSE IF common = {} THEN [geom_type |-> "Empty", points |-> {}]
        ELSE IF Cardinality(common) = 1 THEN [geom_type |-> "Point", points |-> common]
        ELSE [geom_type |-> "MultiPoint", points |-> common]

\* itertools.combinations(range(n), 2)
Combinations2(n) == {c \in (1..n) \X (1..n) : c[1] < c[2]}

\* _calculate_intersections: only Point and MultiPoint results are added
calculate_intersections(edges) ==
    UNION {LET inter == intersection(edges[c[1]], edges[c[2]])
           IN  IF inter.geom_type \in {"Point", "MultiPoint"} THEN inter.points ELSE {} :
           c \in Combinations2(Len(edges))}

\* _extract_vertices_and_edges
extract_edges_list(merged) ==
    Flatten([i \in 1..Len(merged) |-> ConsecutivePairs(merged[i])])

extract_vertices(merged, points) == UNION {Range(merged[i]) : i \in 1..Len(merged)} \cup points

\* create_segments: points[i:i + 2] for i in range(len(points) - 1)
create_segments(points) == ConsecutivePairs(points)

\* the sort key of split_line_by_candidate_points: x where the line is
\* longer along x than along y, y otherwise
sort_key_x_only(pt1, pt2, p) == p[1]

sort_key(pt1, pt2, p) ==
    LET delta_x == IF pt2[1] < pt1[1] THEN pt1[1] - pt2[1] ELSE pt2[1] - pt1[1]
        delta_y == IF pt2[2] < pt1[2] THEN pt1[2] - pt2[2] ELSE pt2[2] - pt1[2]
    IN  IF delta_x > delta_y THEN p[1] ELSE p[2]

\* sorted(included, key=sort_key): a stable sort, points of equal key
\* keep the order they have in included
RECURSIVE stable_sort(_, _, _)
stable_sort(included, pt1, pt2) ==
    IF included = <<>> THEN <<>>
    ELSE LET least == CHOOSE i \in 1..Len(included) :
                         /\ \A j \in 1..Len(included) :
                               sort_key(pt1, pt2, included[i]) <= sort_key(pt1, pt2, included[j])
                         /\ \A j \in 1..(i - 1) :
                               sort_key(pt1, pt2, included[j]) # sort_key(pt1, pt2, included[i])
             rest == [j \in 1..(Len(included) - 1) |->
                         IF j < least THEN included[j] ELSE included[j + 1]]
         IN  <<included[least]>> \o stable_sort(rest, pt1, pt2)

unsorted_points(included, pt1, pt2) == included

sorted_points(included, pt1, pt2) == stable_sort(included, pt1, pt2)

\* a set in one order of iteration.  The candidate points on a line with
\* distinct ends have distinct sort keys unless they are equal to an end,
\* so the order of iteration does not show in the sorted result.
RECURSIVE SetToSeq(_)
SetToSeq(S) ==
    IF S = {} THEN <<>>
    ELSE LET x == CHOOSE x \in S : TRUE IN <<x>> \o SetToSeq(S \ {x})

\* split_line_by_candidate_points: the ends and the candidate points on
\* the line, sorted along the dominant axis
split_line_by_candidate_points(end1, end2, candidate_points) ==
    LET on_line == candidate_points \cap PointsOnSeg(end1, end2)
        included == <<end1, end2>> \o SetToSeq(on_line)
    IN  sorted_points(included, end1, end2)

\* the first loop of split_edges_into_segments
split_segments(edges_list, intersection_points) ==
    Flatten([i \in 1..Len(edges_list) |->
        LET seg_points == split_line_by_candidate_points(
                              edges_list[i][1], edges_list[i][2], intersection_points)
        IN  IF Len(seg_points) > 2 THEN create_segments(seg_points) ELSE <<seg_points>>])

\* the second loop: unique_segments.add((p1, p2))
unique_segments(segs) == Range(segs)

(***************************************************************************)
(* GeometryProcessor.__init__ after _read_coordinates, and                 *)
(* split_edges_into_segments.                                              *)
(***************************************************************************)
\* the fields __init__ sets from self.coordinates
constructed(coordinates) ==
    LET polygons == create_polygons(coordinates)
        edges == extract_edges(polygons)
        merged_edges == merge_edges(edges)
        intersection_points == calculate_intersections(edges)
    IN  [pc |-> "ready",
         coordinates |-> coordinates,
         polygons |-> polygons,
         edges |-> edges,
         merged_edges |-> merged_edges,
         intersection_points |-> intersection_points,
         vertices |-> extract_vertices(merged_edges, intersection_points),
         edges_list |-> extract_edges_list(merged_edges)]

\* the set split_edges_into_segments makes its result list of
split_edges_into_segments(g) ==
    unique_segments(split_segments(g.edges_list, g.intersection_points))

\* self.coordinates has been read
InitGeom ==
    /\ \E coordinates \in CoordinateLists :
          geom = [pc |-> "read", coordinates |-> coordinates]
    /\ reader = [pc |-> "idle"] /\ scaler = [pc |-> "idle"]
    /\ caller = [pc |-> "idle"]
    /\ GraphIdle /\ DirIdle /\ EdgeIdle /\ SplitIdle

\* the rest of __init__: polygons, edges, merged edges, intersections,
\* vertices and edges_list; an exception of Polygon leaves __init__
Construct ==
    /\ geom.pc = "read"
    /\ geom' = IF create_polygons_raises(geom.coordinates)
               THEN [pc |-> "raised", coordinates |-> geom.coordinates]
               ELSE constructed(geom.coordinates)
    /\ UNCHANGED <<reader, scaler, caller, graphVars, dirVars, edgeVars, splitVars>>

\* split_edges_into_segments up to "result = list(unique_segments)"
SplitEdges ==
    /\ geom.pc = "ready"
    /\ geom' = [geom EXCEPT !.pc = "split"] @@ [unique_segments |-> split_edges_into_segments(geom)]
    /\ UNCHANGED <<reader, scaler, caller, graphVars, dirVars, edgeVars, splitVars>>

NextGeom == Construct \/ SplitEdges

SpecGeom == InitGeom /\ [][NextGeom]_vars

(***************************************************************************)
(* GeometryProcessor.scale_segments.                                       *)
(*                                                                         *)
(* A scale factor is the quotient of two image sizes and is modelled as a  *)
(* fraction <<numerator, denominator>> of positive integers; the products  *)
(* and the truncation of int() are computed exactly.                       *)
(***************************************************************************)
\* numerator and denominator of a scale factor are in 1..MaxScale
MaxScale == 3
\* a padding is 0 or MaxPad
MaxPad == 1
\* the coordinates handed to scale_segments are in 0..MaxScaleCoord
MaxScaleCoord == 2
\* scale_segments is handed lists of at most MaxScaleSegs segments
MaxScaleSegs == 2

Scales == (1..MaxScale) \X (1..MaxScale)

Paddings == {0, MaxPad}

\* 1 / scale
Inverse(scale) == <<scale[2], scale[1]>>

\* the segment lists of the position-by-position study: segments between
\* the two corners (0, MaxScaleCoord) and (MaxScaleCoord, 0)
ScaleSegLists ==
    LET corners == {<<0, MaxScaleCoord>>, <<MaxScaleCoord, 0>>}
    IN  UNION {[1..n -> corners \X corners] : n \in 0..MaxScaleSegs}

\* the segments of the round-trip study: from (x, y) to (y, x)
RoundTripSegs ==
    {<<<<x, y>>, <<y, x>>>> : x \in 0..MaxScaleCoord, y \in 0..MaxScaleCoord}

\* int() of the rational num / den, den > 0: rounding half up instead
int_round(num, den) == (2 * num + den) \div (2 * den)

\* int() of the rational num / den, den > 0: truncation toward zero
int(num, den) == IF num >= 0 THEN num \div den ELSE -((-num) \div den)

\* scale_coordinate, dividing by the factor instead of multiplying
scale_coordinate_divided(x, scale, padding) ==
    int(x * scale[2] + padding * scale[1], scale[1])

\* int(x * scale + padding)
scale_coordinate(x, scale, padding) == int(x * scale[1] + padding * scale[2], scale[2])

\* scale_segments, a segment equal to the one before it left out
scale_segments_merged(segs, scale_x, scale_y, left_padding, top_padding) ==
    LET P(p) == <<scale_coordinate(p[1], scale_x, left_padding),
                  scale_coordinate(p[2], scale_y, top_padding)>>
        all == [i \in 1..Len(segs) |-> <<P(segs[i][1]), P(segs[i][2])>>]
        kept == {i \in 1..Len(segs) : i = 1 \/ all[i] # all[i - 1]}
    IN  [k \in 1..Cardinality(kept) |->
            all[CHOOSE i \in kept : Cardinality({j \in kept : j <= i}) = k]]

scale_segments(segs, scale_x, scale_y, left_padding, top_padding) ==
    [i \in 1..Len(segs) |->
        << <<scale_coordinate(segs[i][1][1], scale_x, left_padding),
             scale_coordinate(segs[i][1][2], scale_y, top_padding)>>,
           <<scale_coordinate(segs[i][2][1], scale_x, left_padding),
             scale_coordinate(segs[i][2][2], scale_y, top_padding)>> >>]

\* scale_segments is called on a list of segments
InitScale ==
    /\ \E segs \in ScaleSegLists : \E sx \in Scales, sy \in Scales :
       \E lp \in Paddings, tp \in Paddings :
          scaler = [pc |-> "called", segments |-> segs, scale_x |-> sx, scale_y |-> sy,
                    left_padding |-> lp, top_padding |-> tp]
    /\ reader = [pc |-> "idle"] /\ geom = [pc |-> "idle"]
    /\ caller = [pc |-> "idle"]
    /\ GraphIdle /\ DirIdle /\ EdgeIdle /\ SplitIdle

\* the call returns scaled_segments; the list it was handed is not written
Scale ==
    /\ scaler.pc = "called"
    /\ scaler' = [scaler EXCEPT !.pc = "returned"]
                    @@ [scaled_segments |->
                           scale_segments(scaler.segments, scaler.scale_x, scaler.scale_y,
                                          scaler.left_padding, scaler.top_padding)]
    /\ UNCHANGED <<reader, geom, caller, graphVars, dirVars, edgeVars, splitVars>>

NextScale == Scale

SpecScale == InitScale /\ [][NextScale]_vars

\* scale_segments is called on one segment with zero paddings
InitRoundTrip ==
    /\ \E seg \in RoundTripSegs : \E sx \in Scales, sy \in Scales :
          scaler = [pc |-> "called", segments |-> <<seg>>, scale_x |-> sx, scale_y |-> sy,
                    left_padding |-> 0, top_padding |-> 0]
    /\ reader = [pc |-> "idle"] /\ geom = [pc |-> "idle"]
    /\ caller = [pc |-> "idle"]
    /\ GraphIdle /\ DirIdle /\ EdgeIdle /\ SplitIdle

\* a second call, on the result of the first, with the inverse factors
\* and zero paddings
ScaleBack ==
    /\ scaler.pc = "returned"
    /\ scaler' = [scaler EXCEPT !.pc = "restored"]
                    @@ [restored |->
                           scale_segments(scaler.scaled_segments, Inverse(scaler.scale_x),
                                          Inverse(scaler.scale_y), 0, 0)]
    /\ UNCHANGED <<reader, geom, caller, graphVars, dirVars, edgeVars, splitVars>>

NextRoundTrip == Scale \/ ScaleBack

SpecRoundTrip == InitRoundTrip /\ [][NextRoundTrip]_vars

(***************************************************************************)
(* The annotation pipeline of process_file_pair on one polygon: the        *)
(* GeometryProcessor is constructed and split, its segments are scaled     *)
(* (here for an image that keeps its size: factors 1, paddings 0) and      *)
(* handed to a GraphAnnotator, whose build_graphs runs.                    *)
(***************************************************************************)
Square == <<<<0, 0>>, <<10, 0>>, <<10, 10>>, <<0, 10>>>>

\* list(unique_segments): the elements of the set in any order
Orderings(S) ==
    {f \in [1..Cardinality(S) -> S] : \A i, j \in 1..Cardinality(S) : f[i] = f[j] => i = j}

InitPipeline ==
    /\ geom = [pc |-> "read", coordinates |-> <<Square>>]
    /\ reader = [pc |-> "idle"] /\ scaler = [pc |-> "idle"]
    /\ caller = [pc |-> "idle"]
    /\ GraphIdle /\ DirIdle /\ EdgeIdle /\ SplitIdle

\* segments = scale_segments(split_edges_into_segments(), ...);
\* GraphAnnotator(segments, ...); the call of build_graphs
HandOver ==
    /\ geom.pc = "split" /\ pc = "idle"
    /\ \E result \in Orderings(geom.unique_segments) :
          segments' = scale_segments(result, <<1, 1>>, <<1, 1>>, 0, 0)
    /\ pc' = "build"
    /\ geom' = [geom EXCEPT !.pc = "done"]
    /\ UNCHANGED <<seg_idx, coordinate_graph, code_graph, origin, visited, queue, quatree,
                   annotations, annot_id, key_idx, start_id, reader, scaler, caller,
                   dirVars, edgeVars, splitVars>>

NextPipeline ==
    \/ Construct
    \/ SplitEdges
    \/ HandOver
    \/ BuildSegment
    \/ SelectOrigin
    \/ BfsStep
    \/ BfsReturn

SpecPipeline == InitPipeline /\ [][NextPipeline]_vars

(***************************************************************************)
(* GeometryProcessor._read_coordinates.                                    *)
(*                                                                         *)
(* A file is a list of lines and a line the list of its tokens, as         *)
(* line.strip().split() returns them.                                      *)
(***************************************************************************)
\* a line has at most MaxTokens tokens
MaxTokens == 5
\* a file has at most MaxLines lines
MaxLines == 2

Numerals == <<"0", "1", "2", "3">>

\* int(token) raises ValueError for a token that is not a numeral
int_str_raises(token) == token \notin Range(Numerals)

\* int(token)
int_str(token) == (CHOOSE k \in 1..Len(Numerals) : Numerals[k] = token) - 1

\* the line of n tokens whose i-th token is the numeral of i modulo 4,
\* but for the word "a" at position bad (no word if bad = 0)
Line(n, bad) ==
    [i \in 1..n |-> IF i = bad THEN "a" ELSE Numerals[(i % Len(Numerals)) + 1]]

Lines == {Line(n, bad) : n \in 0..MaxTokens, bad \in 0..MaxTokens}

Files == UNION {[1..n -> Lines] : n \in 0..MaxLines}

\* the first exception the comprehension
\* [(int(parts[i]), int(parts[i + 1])) for i in range(0, len(parts), 2)]
\* raises, or "none"
comprehension_raises(parts) ==
    LET Fails(k) == \* the 0-based index k is read and int() applied to it
            k >= Len(parts) \/ int_str_raises(parts[k + 1])
        failing == {k \in 0..Len(parts) : k <= Len(parts) - 1 + (Len(parts) % 2) /\ Fails(k)}
    IN  IF failing = {} THEN "none"
        ELSE LET k == CHOOSE k \in failing : \A j \in failing : k <= j
             IN  IF k >= Len(parts) THEN "IndexError" ELSE "ValueError"

comprehension(parts) ==
    [j \in 1..(Len(parts) \div 2) |-> <<int_str(parts[2 * j - 1]), int_str(parts[2 * j])>>]

\* "if not parts or len(parts) < 4: continue"
skipped(parts) == parts = <<>> \/ Len(parts) < 4

\* parts[:-2]
drop_last_two(parts) == SubSeq(parts, 1, Len(parts) - 2)

\* the file has been opened
InitRead ==
    /\ \E file \in Files :
          reader = [pc |-> "reading", file |-> file, line_idx |-> 0, coordinates_list |-> <<>>]
    /\ geom = [pc |-> "idle"] /\ scaler = [pc |-> "idle"]
    /\ caller = [pc |-> "idle"]
    /\ GraphIdle /\ DirIdle /\ EdgeIdle /\ SplitIdle

\* one iteration of "for line in file"; an exception is logged and raised
\* again by the except clause
ReadLine ==
    /\ reader.pc = "reading" /\ reader.line_idx < Len(reader.file)
    /\ LET parts == reader.file[reader.line_idx + 1]
       IN  IF skipped(parts)
           THEN reader' = [reader EXCEPT !.line_idx = @ + 1]
           ELSE IF comprehension_raises(drop_last_two(parts)) # "none"
           THEN reader' = [reader EXCEPT !.pc = "raised"]
                             @@ [exception |-> comprehension_raises(drop_last_two(parts))]
           ELSE reader' = [reader EXCEPT !.line_idx = @ + 1,
                                         !.coordinates_list =
                                             Append(@, comprehension(drop_last_two(parts)))]
    /\ UNCHANGED <<geom, scaler, caller, graphVars, dirVars, edgeVars, splitVars>>

\* the loop is over: return coordinates_list
ReadReturn ==
    /\ reader.pc = "reading" /\ reader.line_idx = Len(reader.file)
    /\ reader' = [reader EXCEPT !.pc = "returned"]
    /\ UNCHANGED <<geom, scaler, caller, graphVars, dirVars, edgeVars, splitVars>>

NextRead == ReadLine \/ ReadReturn

SpecRead == InitRead /\ [][NextRead]_vars

(***************************************************************************)
(* One GraphAnnotator invoked twice: build_graphs, create_annotations,     *)
(* then build_graphs and create_annotations again on the same instance.    *)
(***************************************************************************)
\* __init__ followed by the first call of build_graphs
InitAgain ==
    /\ segments \in AnnotSegLists
    /\ pc = "build" /\ seg_idx = 0
    /\ coordinate_graph = <<>> /\ code_graph = <<>>
    /\ origin = NoNeighbor /\ visited = {} /\ queue = <<>> /\ quatree = <<>>
    /\ annotations = <<>> /\ annot_id = 0 /\ key_idx = 0 /\ start_id = 0
    /\ reader = [pc |-> "idle"] /\ geom = [pc |-> "idle"] /\ scaler = [pc |-> "idle"]
    /\ caller = [pc |-> "first"]
    /\ DirIdle /\ EdgeIdle /\ SplitIdle

\* the caller keeps what the first invocation returned and calls
\* build_graphs again; the fields of the instance are as the first
\* invocation left them
InvokeAgain ==
    /\ pc = "done" /\ caller.pc = "first"
    /\ caller' = [pc |-> "second", coordinate_graph |-> coordinate_graph,
                  code_graph |-> code_graph, annotations |-> annotations,
                  annot_id |-> annot_id, start_id |-> start_id]
    /\ pc' = "build"
    /\ seg_idx' = 0
    /\ UNCHANGED <<segments, coordinate_graph, code_graph, origin, visited, queue, quatree,
                   annotations, annot_id, key_idx, start_id, reader, geom, scaler,
                   dirVars, edgeVars, splitVars>>

NextAgain ==
    \/ BuildSegment
    \/ SelectOrigin
    \/ BfsStep
    \/ BfsReturn
    \/ CallCreateAnnotations
    \/ AnnotateKey
    \/ AnnotateReturn
    \/ InvokeAgain

SpecAgain == InitAgain /\ [][NextAgain]_vars

(***************************************************************************)
(* build_graphs run to its return on non-empty segment lists over three    *)
(* pixels that form a triangle.  The method is straight-line code with two *)
(* loops on one thread: a step that can be taken is taken.                 *)
(***************************************************************************)
\* a list handed to this run holds at most MaxBfsSegs segments
MaxBfsSegs == 3
Triangle == {<<0, 0>>, <<1, 0>>, <<0, 1>>}
TriangleSegLists == UNION {[1..n -> Triangle \X Triangle] : n \in 1..MaxBfsSegs}

InitBfs ==
    /\ segments \in TriangleSegLists
    /\ pc = "build" /\ seg_idx = 0
    /\ coordinate_graph = <<>> /\ code_graph = <<>>
    /\ origin = NoNeighbor /\ visited = {} /\ queue = <<>> /\ quatree = <<>>
    /\ annotations = <<>> /\ annot_id = 0 /\ key_idx = 0 /\ start_id = 0
    /\ DirIdle /\ EdgeIdle /\ SplitIdle /\ GeomIdle

SpecBfs ==
    /\ InitBfs /\ [][Next]_vars
    /\ WF_vars(BuildSegment) /\ WF_vars(SelectOrigin)
    /\ WF_vars(BfsStep) /\ WF_vars(BfsReturn)

(***************************************************************************)
(* Notions the properties are stated in.                                   *)
(***************************************************************************)
Pt(x, y) == <<x, y>>

Seg(p, q) == <<p, q>>

Abs(n) == IF n < 0 THEN -n ELSE n

Max(S) == CHOOSE m \in S : \A x \in S : x <= m

\* the vertices of a graph: its keys but the reserved one
PointKeys(d) == {d[i][1] : i \in 1..Len(d)} \ {QuatreeKey}

\* build_graphs has returned
Built == pc \in {"built", "annot", "done"}

\* the LevelMap build_graphs stored under the reserved key
LevelMap == DictGet(coordinate_graph, QuatreeKey)[1]

\* the places <<i, j>> of a level map: j-th vertex of its i-th level
Placements(qt) == UNION {{<<i, j>> : j \in 1..Len(qt[i][2])} : i \in 1..Len(qt)}
PlacedPoint(qt, pl) == qt[pl[1]][2][pl[2]]
PlacedLevel(qt, pl) == qt[pl[1]][1]

\* segment i joins v and n, and leaves v in direction d
SegHasDir(i, v, n, d) ==
    /\ segments[i] = Seg(v, n) \/ segments[i] = Seg(n, v)
    /\ get_direction_index(v, n) = d

FarEnd(i, v) == IF segments[i][1] = v THEN segments[i][2] ELSE segments[i][1]

\* the segments that have v as an endpoint and leave v in direction d
LeavingIn(v, d) ==
    {i \in 1..Len(segments) :
        /\ segments[i][1] = v \/ segments[i][2] = v
        /\ get_direction_index(v, FarEnd(i, v)) = d}

\* the vertices one hop along a filled slot from a vertex of r, and r
Expand(cg, r) ==
    r \cup {n \in PointKeys(cg) : \E u \in r : \E i \in 1..4 : DictGet(cg, u)[i] = n}

\* the vertices at exactly 0, 1, 2, ... hops from the set frontier, those of
\* seen left out, up to the last distance some vertex is at
RECURSIVE HopLayers(_, _, _)
HopLayers(cg, seen, frontier) ==
    IF frontier = {} THEN <<>>
    ELSE <<frontier>>
           \o HopLayers(cg, seen \cup frontier, Expand(cg, frontier) \ (seen \cup frontier))

\* the vertices some number of hops from o
Reachable(cg, o) ==
    LET layers == HopLayers(cg, {}, {o})
    IN  UNION {layers[k] : k \in 1..Len(layers)}

\* the position at which point v first occurs in the segment list, the
\* first endpoint of a segment before its second
FirstPos(v) ==
    CHOOSE m \in 1..(2 * Len(segments)) :
        /\ segments[(m + 1) \div 2][2 - (m % 2)] = v
        /\ \A l \in 1..(m - 1) : segments[(l + 1) \div 2][2 - (l % 2)] # v

SquaredLength(p) == p[1] * p[1] + p[2] * p[2]

(***************************************************************************)
(* C1: for every vertex, the connectivity code has a '1' exactly in the    *)
(* slots of the adjacency record that are filled, hence as many '1's as    *)
(* there are entries other than (-1,-1).                                   *)
(***************************************************************************)
C1_CodeMatchesAdjacency ==
    Built =>
        /\ PointKeys(code_graph) = PointKeys(coordinate_graph)
        /\ \A v \in PointKeys(coordinate_graph) :
              LET rec == DictGet(coordinate_graph, v)
                  code == DictGet(code_graph, v)
              IN  /\ Len(rec) = 4 /\ Len(code) = 4
                  /\ \A i \in 1..4 : /\ code[i] \in {"0", "1"}
                                     /\ code[i] = "1" <=> rec[i] # NoNeighbor
                  /\ Cardinality({i \in 1..4 : code[i] = "1"})
                        = Cardinality({i \in 1..4 : rec[i] # NoNeighbor})

\* a built graph with a vertex joined downwards and to the right
C1_Witness ==
    /\ Built
    /\ \E v \in PointKeys(code_graph) :
          /\ DictGet(code_graph, v) = <<"0", "0", "1", "1">>
          /\ DictGet(coordinate_graph, v)[3] # NoNeighbor
          /\ DictGet(coordinate_graph, v)[4] # NoNeighbor

(***************************************************************************)
(* C2 as stated: after build_graphs, slot d of v holds n if and only if    *)
(* the input has a segment joining v and n that leaves v in direction d    *)
(* (here on the segment lists without a zero-length segment, where it      *)
(* already fails).                                                         *)
(***************************************************************************)
C2_SlotIffSomeSegment ==
    (Built /\ \A i \in 1..Len(segments) : segments[i][1] # segments[i][2]) =>
        \A v \in PointKeys(coordinate_graph) : \A d \in 0..3 : \A n \in Points :
            DictGet(coordinate_graph, v)[d + 1] = n
                <=> \E i \in 1..Len(segments) : SegHasDir(i, v, n, d)

(***************************************************************************)
(* C2 as amended: after build_graphs, slot d of v holds n if and only if   *)
(* n is the far endpoint of the last segment of the input, in list order,  *)
(* among the segments that have v as an endpoint and leave v in direction  *)
(* d.                                                                      *)
(***************************************************************************)
C2_SlotIffLastSegment ==
    Built =>
        \A v \in PointKeys(coordinate_graph) : \A d \in 0..3 :
            LET slot == DictGet(coordinate_graph, v)[d + 1]
                leaving == LeavingIn(v, d)
            IN  /\ slot \in Points \cup {NoNeighbor}
                /\ \A n \in Points :
                      slot = n <=> (leaving # {} /\ FarEnd(Max(leaving), v) = n)

\* two segments leave (0,0) to the right; the slot holds the later one
C2_Witness ==
    /\ Built
    /\ segments = <<Seg(Pt(0, 0), Pt(1, 0)), Seg(Pt(0, 0), Pt(1, 1))>>
    /\ DictGet(coordinate_graph, Pt(0, 0))[4] = Pt(1, 1)

(***************************************************************************)
(* C3: on distinct points get_direction_index returns an index in 0..3,    *)
(* never -1: Right(3) iff dx > 0 and |dy| <= dx; Up(0) iff dy > 0 and      *)
(* -dy <= dx < dy; Left(1) iff dx < 0 and |dy| < -dx; Down(2) iff dy < 0   *)
(* and dy <= dx < -dy, with dx = target.x - origin.x and                   *)
(* dy = origin.y - target.y.                                               *)
(***************************************************************************)
C3_DirectionTotal ==
    (d_result # -2 /\ d_origin # d_point) =>
        LET dx == d_point[1] - d_origin[1]
            dy == d_origin[2] - d_point[2]
        IN  /\ d_result \in 0..3
            /\ d_result = 3 <=> (dx > 0 /\ Abs(dy) <= dx)
            /\ d_result = 0 <=> (dy > 0 /\ -dy <= dx /\ dx < dy)
            /\ d_result = 1 <=> (dx < 0 /\ Abs(dy) < -dx)
            /\ d_result = 2 <=> (dy < 0 /\ dy <= dx /\ dx < -dy)

\* a target exactly at 135 degrees is classified Up
C3_Witness ==
    /\ d_result = 0
    /\ d_origin = Pt(2, 2) /\ d_point = Pt(0, 0)

(***************************************************************************)
(* C4: the lookup returns for each of the 16 strings over '0','1', with a  *)
(* value in 0..15, different strings get different values, and the values  *)
(* are those of the table (0101 -> 14, 1010 -> 15, 0110 -> 5), not the     *)
(* binary value of the string.                                             *)
(***************************************************************************)
C4_LookupTotalInjective ==
    /\ (e_pc # "idle" /\ e_class[1] \in AllCodes /\ e_class[2] \in AllCodes)
          => e_pc # "raised"
    /\ e_pc = "returned" =>
          /\ e_code[1] \in 0..15 /\ e_code[2] \in 0..15
          /\ e_code[1] = e_code[2] => e_class[1] = e_class[2]
          /\ e_class[1] = <<"0", "1", "0", "1">> => e_code[1] = 14
          /\ e_class[1] = <<"1", "0", "1", "0">> => e_code[1] = 15
          /\ e_class[1] = <<"0", "1", "1", "0">> => e_code[1] = 5

C4_Witness ==
    /\ e_pc = "returned"
    /\ e_class = <<<<"0", "1", "0", "1">>, <<"1", "0", "1", "0">>>>
    /\ e_code = <<14, 15>>

(***************************************************************************)
(* C5: in the LevelMap the origin is at level 0 and alone there, and every *)
(* vertex occurs at most once over all the level lists.                    *)
(***************************************************************************)
C5_LevelsUnique ==
    /\ (pc = "bfs" /\ quatree # <<>>) =>
          /\ DictHas(quatree, 0) /\ DictGet(quatree, 0) = <<origin>>
          /\ \A a, b \in Placements(quatree) :
                PlacedPoint(quatree, a) = PlacedPoint(quatree, b) => a = b
    /\ Built =>
          /\ DictHas(LevelMap, 0) /\ DictGet(LevelMap, 0) = <<origin>>
          /\ \A a, b \in Placements(LevelMap) :
                PlacedPoint(LevelMap, a) = PlacedPoint(LevelMap, b) => a = b
          /\ \A i, j \in 1..Len(LevelMap) : LevelMap[i][1] = LevelMap[j][1] => i = j

\* a triangle: (1,0) is enqueued by (0,0) and again by (0,1) before it is
\* dequeued, and is placed once
C5_Witness ==
    /\ Built
    /\ segments = <<Seg(Pt(0, 0), Pt(1, 0)), Seg(Pt(0, 0), Pt(0, 1)), Seg(Pt(1, 0), Pt(0, 1))>>
    /\ LevelMap = <<<<0, <<Pt(0, 0)>>>>, <<1, <<Pt(0, 1), Pt(1, 0)>>>>>>

(***************************************************************************)
(* C6: the level of every vertex of the LevelMap is its least number of    *)
(* hops from the origin along filled slots, and the greatest level is the  *)
(* greatest such distance over the vertices reachable from the origin.     *)
(***************************************************************************)
C6_LevelIsHopDistance ==
    Built =>
        \A layers \in {HopLayers(coordinate_graph, {}, {origin})} :
            /\ \A i \in 1..Len(LevelMap) :
                  /\ LevelMap[i][1] \in 0..(Len(layers) - 1)
                  /\ \A j \in 1..Len(LevelMap[i][2]) :
                        LevelMap[i][2][j] \in layers[LevelMap[i][1] + 1]
            /\ Max({LevelMap[i][1] : i \in 1..Len(LevelMap)}) = Len(layers) - 1

\* a path of three segments from the origin: levels 0, 1, 2 and 3
C6_Witness ==
    /\ Built
    /\ Len(LevelMap) = 4
    /\ Len(HopLayers(coordinate_graph, {}, {origin})) = 4
    /\ Cardinality(PointKeys(coordinate_graph)) = 4

(***************************************************************************)
(* C7: the vertices of the LevelMap are exactly the vertices reachable     *)
(* from the origin along filled slots, and build_graphs raises for no      *)
(* non-empty segment list.                                                 *)
(***************************************************************************)
C7_LevelMapIsReachableSet ==
    /\ Built =>
          {PlacedPoint(LevelMap, pl) : pl \in Placements(LevelMap)}
             = Reachable(coordinate_graph, origin)
    /\ pc = "error" => segments = <<>>

\* two components: the one without the origin is in no level
C7_Witness ==
    /\ Built
    /\ segments = <<Seg(Pt(0, 0), Pt(1, 0)), Seg(Pt(0, 1), Pt(1, 1))>>
    /\ {PlacedPoint(LevelMap, pl) : pl \in Placements(LevelMap)} = {Pt(0, 0), Pt(1, 0)}
    /\ PointKeys(coordinate_graph) = {Pt(0, 0), Pt(1, 0), Pt(0, 1), Pt(1, 1)}

(***************************************************************************)
(* C8: the BFS root is a vertex of least Euclidean distance to (0,0), and  *)
(* among the vertices at that distance the one that occurs first in the    *)
(* segment list.                                                           *)
(***************************************************************************)
C8_OriginIsFirstNearest ==
    Built =>
        /\ origin \in PointKeys(coordinate_graph)
        /\ \A v \in PointKeys(coordinate_graph) :
              /\ SquaredLength(origin) <= SquaredLength(v)
              /\ SquaredLength(origin) = SquaredLength(v) => FirstPos(origin) <= FirstPos(v)

\* (0,1) and (1,0) are equally near; (1,0) comes first in the list
C8_Witness ==
    /\ Built
    /\ segments = <<Seg(Pt(1, 1), Pt(1, 0)), Seg(Pt(0, 1), Pt(1, 1))>>
    /\ origin = Pt(1, 0)

(***************************************************************************)
(* C9: create_annotations called with counter c on a graph of n vertices   *)
(* returns one record per vertex, in the order the vertices first occur,   *)
(* with ids c, c+1, ..., c+n-1, and the counter c+n.                       *)
(***************************************************************************)
C9_IdsFromCounter ==
    pc = "done" =>
        LET n == Cardinality(PointKeys(code_graph))
        IN  /\ Len(annotations) = n
            /\ \A i \in 1..n : annotations[i].id = start_id + i - 1
            /\ {annotations[i].point : i \in 1..n} = PointKeys(code_graph)
            /\ \A i, j \in 1..n :
                  i < j => FirstPos(annotations[i].point) < FirstPos(annotations[j].point)
            /\ annot_id = start_id + n

\* three vertices from counter 5: ids 5, 6, 7 and the counter 8
C9_Witness ==
    /\ pc = "done"
    /\ start_id = 5
    /\ Cardinality(PointKeys(code_graph)) = 3
    /\ [i \in 1..Len(annotations) |-> annotations[i].id] = <<5, 6, 7>>
    /\ annot_id = 8

\* the number of vertices of the graph of a segment list
VertexCount(segs) == Cardinality({segs[i][k] : i \in 1..Len(segs), k \in 1..2})

RECURSIVE TotalVertices(_)
TotalVertices(log) ==
    IF log = <<>> THEN 0
    ELSE TotalVertices(SubSeq(log, 1, Len(log) - 1)) + VertexCount(log[Len(log)])

AnnotationIds(anns) == [i \in 1..Len(anns) |-> anns[i].id]

Resolved == geom.pc = "split"

\* the two ends of a segment, whichever way round it is stored
Ends(s) == {s[1], s[2]}

\* the walls of the exterior ring of polygon i, as pairs of ends
RingWalls(i) ==
    {{geom.edges[i][k], geom.edges[i][k + 1]} : k \in 1..(Len(geom.edges[i]) - 1)}

\* the walls two different polygons both have as an edge
SharedWalls ==
    {w \in UNION {RingWalls(c[1]) \cap RingWalls(c[2]) :
                     c \in Combinations2(Len(geom.edges))} : Cardinality(w) = 2}

\* the points a wall is cut at: its ends and the intersection points on it
CutPoints(w) ==
    w \cup (geom.intersection_points
              \cap UNION {PointsOnSeg(p, q) : p \in w, q \in w})

\* the pieces of a wall between neighbouring cut points
Pieces(w) ==
    LET cuts == CutPoints(w)
    IN  {{x[1], x[2]} : x \in {y \in cuts \X cuts :
                                  /\ y[1] # y[2]
                                  /\ PointsOnSeg(y[1], y[2]) \cap cuts = {y[1], y[2]}}}

\* the output segments between the two points of e, either way round
SegmentsFor(e) == {s \in geom.unique_segments : Ends(s) = e}

\* the two unit squares side by side
TwoUnitSquares == <<Rect(0, 0, 1, 1), Rect(1, 0, 2, 1)>>

(***************************************************************************)
(* C11: a wall that two polygons both have as an edge comes out once: each *)
(* of its pieces between neighbouring junction points (the whole wall if   *)
(* no junction lies on it) is exactly one segment of the output.  The two  *)
(* unit squares (0,0),(1,0),(1,1),(0,1) and (1,0),(2,0),(2,1),(1,1) give   *)
(* 6 vertices and 7 segments.                                              *)
(***************************************************************************)
C11_SharedWallOnce ==
    Resolved =>
        /\ \A w \in SharedWalls : \A e \in Pieces(w) : Cardinality(SegmentsFor(e)) = 1
        /\ geom.coordinates = TwoUnitSquares =>
              /\ Cardinality(geom.unique_segments) = 7
              /\ Cardinality(UNION {Ends(s) : s \in geom.unique_segments}) = 6

\* the two unit squares: the wall from (1,0) to (1,1), which the first
\* square runs up and the second runs down, is one segment of seven
C11_Witness ==
    /\ Resolved
    /\ geom.coordinates = TwoUnitSquares
    /\ SharedWalls = {{<<1, 0>>, <<1, 1>>}}
    /\ <<<<1, 0>>, <<1, 1>>>> \in Range(geom.edges_list)
    /\ <<<<1, 1>>, <<1, 0>>>> \in Range(geom.edges_list)
    /\ Cardinality(SegmentsFor({<<1, 0>>, <<1, 1>>})) = 1
    /\ Cardinality(geom.unique_segments) = 7

StrictlyInside(s) == PointsOnSeg(s[1], s[2]) \ Ends(s)

\* every point two different exterior rings have in common
RingMeetingPoints ==
    UNION {PointsOnLine(geom.edges[c[1]]) \cap PointsOnLine(geom.edges[c[2]]) :
           c \in Combinations2(Len(geom.edges))}

(***************************************************************************)
(* C14 as stated: every segment of the output is atomic: no end of another *)
(* output segment, and no point two polygon boundaries have in common,     *)
(* lies strictly between its two ends.                                     *)
(***************************************************************************)
C14_SegmentsAtomic ==
    Resolved =>
        \A s \in geom.unique_segments :
            /\ \A t \in geom.unique_segments : Ends(t) \cap StrictlyInside(s) = {}
            /\ RingMeetingPoints \cap StrictlyInside(s) = {}

(***************************************************************************)
(* C15 as stated: no two different segments of the output have more than a *)
(* single point in common.                                                 *)
(***************************************************************************)
C15_NoCollinearOverlap ==
    Resolved =>
        \A s, t \in geom.unique_segments :
            s # t => Cardinality(PointsOnSeg(s[1], s[2]) \cap PointsOnSeg(t[1], t[2])) <= 1

(***************************************************************************)
(* C20 as stated: when the annotation file gives no polygons, the resolver *)
(* raises and returns no segment list.                                     *)
(***************************************************************************)
C20_EmptyInputRaises ==
    geom.pc \in {"ready", "split"} => geom.polygons # <<>>

(***************************************************************************)
(* Rescaling.                                                              *)
(***************************************************************************)
\* the integer part of x * scale + padding, for non-negative x and padding:
\* the k with k <= x * scale + padding < k + 1
Truncated(x, scale, padding) ==
    CHOOSE k \in 0..(x * scale[1] + padding) :
        /\ k * scale[2] <= x * scale[1] + padding * scale[2]
        /\ x * scale[1] + padding * scale[2] < (k + 1) * scale[2]

(***************************************************************************)
(* C16: scale_segments maps its input position by position.  The result    *)
(* has the length of the input, its i-th segment is the image of the i-th  *)
(* input segment, with endpoints (trunc(x * scale_x + left_padding),       *)
(* trunc(y * scale_y + top_padding)); the list handed in is unchanged and  *)
(* no segment is dropped, merged or deduplicated.                          *)
(***************************************************************************)
C16_ScalePositionByPosition ==
    [][Scale =>
        /\ scaler'.segments = scaler.segments
        /\ Len(scaler'.scaled_segments) = Len(scaler.segments)
        /\ \A i \in 1..Len(scaler.segments) : \A e \in 1..2 :
              scaler'.scaled_segments[i][e] =
                 <<Truncated(scaler.segments[i][e][1], scaler.scale_x, scaler.left_padding),
                   Truncated(scaler.segments[i][e][2], scaler.scale_y, scaler.top_padding)>>
      ]_vars

\* two different segments were scaled onto the same segment, both are in
\* the result, and a padding was added
C16_Witness ==
    /\ scaler.pc = "returned"
    /\ Len(scaler.scaled_segments) = 2
    /\ scaler.segments[1] # scaler.segments[2]
    /\ scaler.scaled_segments[1] = scaler.scaled_segments[2]
    /\ scaler.left_padding = MaxPad
    /\ scaler.scale_y[1] < scaler.scale_y[2]

\* the coordinates of a segment list, position by position
Coordinate(segs, i, e, axis) == segs[i][e][axis]

\* the round trip moved no coordinate of the given axis by more than 1
WithinOne(axis) ==
    \A i \in 1..Len(scaler.segments) : \A e \in 1..2 :
        Abs(Coordinate(scaler.restored, i, e, axis)
              - Coordinate(scaler.segments, i, e, axis)) <= 1

(***************************************************************************)
(* C17 as stated: scaling by (sx, sy) and then by (1/sx, 1/sy), with zero  *)
(* offsets, returns coordinates that differ from the originals by at most  *)
(* 1 on each axis, for every non-negative integer coordinate and all       *)
(* positive scale factors.                                                 *)
(***************************************************************************)
C17_RoundTripWithinOne ==
    scaler.pc = "restored" => WithinOne(1) /\ WithinOne(2)

(***************************************************************************)
(* C17, amended: scaling by (sx, sy) and then by (1/sx, 1/sy), with zero   *)
(* offsets, returns coordinates that differ from the originals by at most  *)
(* 1 on every axis whose scale factor is at least 1.                       *)
(***************************************************************************)
C17_RoundTripWithinOneWhenEnlarging ==
    scaler.pc = "restored" =>
        /\ scaler.scale_x[1] >= scaler.scale_x[2] => WithinOne(1)
        /\ scaler.scale_y[1] >= scaler.scale_y[2] => WithinOne(2)

\* a round trip with factors above 1 that are not integers, which lost 1
C17_Witness ==
    /\ scaler.pc = "restored"
    /\ scaler.scale_x[1] > scaler.scale_x[2] /\ scaler.scale_x[2] > 1
    /\ scaler.scale_y[1] > scaler.scale_y[2]
    /\ Coordinate(scaler.restored, 1, 1, 1) = Coordinate(scaler.segments, 1, 1, 1) - 1

(***************************************************************************)
(* C12: end to end on the single square polygon [(0,0),(10,0),(10,10),     *)
(* (0,10)]: the resolver yields 4 segments over 4 vertices, build_graphs   *)
(* gives every vertex a connectivity code with exactly two '1's, the       *)
(* canonical origin is (0,0), and the LevelMap is {0: [(0,0)], 1: [the two *)
(* corners adjacent to (0,0)], 2: [(10,10)]}.                              *)
(***************************************************************************)
C12_SquareEndToEnd ==
    Built =>
        /\ Cardinality(geom.unique_segments) = 4 /\ Len(segments) = 4
        /\ UNION {Ends(s) : s \in geom.unique_segments} = Range(Square)
        /\ PointKeys(coordinate_graph) = Range(Square)
        /\ PointKeys(code_graph) = Range(Square)
        /\ \A v \in PointKeys(code_graph) :
              Cardinality({i \in 1..4 : DictGet(code_graph, v)[i] = "1"}) = 2
        /\ origin = <<0, 0>>
        /\ DictKeys(LevelMap) = <<0, 1, 2>>
        /\ DictGet(LevelMap, 0) = <<<<0, 0>>>>
        /\ Len(DictGet(LevelMap, 1)) = 2
        /\ Range(DictGet(LevelMap, 1)) = {<<10, 0>>, <<0, 10>>}
        /\ DictGet(LevelMap, 2) = <<<<10, 10>>>>

\* the pipeline has run to the end on the square, on a segment list whose
\* first segment does not touch the origin
C12_Witness ==
    /\ pc = "built" /\ geom.pc = "done"
    /\ geom.coordinates = <<Square>>
    /\ segments[1] = <<<<0, 10>>, <<10, 10>>>>
    /\ Len(LevelMap) = 3

(***************************************************************************)
(* C18: a zero-length segment (p, p) is rejected as an input error: once   *)
(* the loop of build_graphs has taken such a segment the call has failed,  *)
(* and p has been given no direction slot and no connectivity bit for it.  *)
(***************************************************************************)
C18_ZeroLengthRejected ==
    \A i \in 1..seg_idx :
        segments[i][1] = segments[i][2] =>
            LET p == segments[i][1]
            IN  /\ pc = "error"
                /\ DictHas(coordinate_graph, p) =>
                      \A d \in 1..4 : DictGet(coordinate_graph, p)[d] # p
                /\ DictHas(code_graph, p) =>
                      DictGet(code_graph, p)[get_direction_index(p, p) + 1] = "0"

(***************************************************************************)
(* C19: reading fails whenever some line, its last two tokens dropped, is  *)
(* left with an odd number of coordinate tokens (1, 3, 5, ...): such a     *)
(* line is never skipped or partially parsed, so a read that returned has  *)
(* met no such line.                                                       *)
(***************************************************************************)
C19_OddLineRaises ==
    reader.pc = "returned" =>
        \A i \in 1..Len(reader.file) :
            Len(reader.file[i]) >= 2 => (Len(reader.file[i]) - 2) % 2 = 0

C22_SecondInvocationSame ==
    (pc = "done" /\ caller.pc = "second" /\ start_id = caller.start_id) =>
        /\ coordinate_graph = caller.coordinate_graph
        /\ code_graph = caller.code_graph
        /\ annot_id = caller.annot_id
        /\ annotations = caller.annotations
        /\ Len(annotations) = Cardinality(PointKeys(code_graph))

(***************************************************************************)
(* C23: when two or more segments incident to the same vertex v leave v in *)
(* the same direction d, build_graphs raises no error and the last write   *)
(* wins: after the build, slot d of v holds the far endpoint of the one    *)
(* that comes last in the segment sequence, and bit d of the connectivity  *)
(* code of v is '1'.                                                       *)
(***************************************************************************)
C23_LastWriteWins ==
    \A v \in {segments[i][e] : i \in 1..Len(segments), e \in 1..2} : \A d \in 0..3 :
        Cardinality(LeavingIn(v, d)) >= 2 =>
            /\ pc # "error"
            /\ Built =>
                  /\ DictGet(coordinate_graph, v)[d + 1] = FarEnd(Max(LeavingIn(v, d)), v)
                  /\ DictGet(code_graph, v)[d + 1] = "1"

\* (0,0) has (1,1) and then (1,0) to its right, the second segment stored
\* from its far end: the slot holds (1,0) and the annotations are made
C23_Witness ==
    /\ pc = "done" /\ caller.pc = "first"
    /\ segments = <<Seg(Pt(0, 0), Pt(1, 1)), Seg(Pt(1, 0), Pt(0, 0))>>
    /\ DictGet(coordinate_graph, Pt(0, 0)) = <<NoNeighbor, NoNeighbor, NoNeighbor, Pt(1, 0)>>
    /\ DictGet(code_graph, Pt(0, 0)) = <<"0", "0", "0", "1">>

(***************************************************************************)
(* C24: for an axis-aligned segment with distinct endpoints p1 and p2      *)
(* (equal x or equal y), the direction index from p1 to p2 and the one     *)
(* from p2 to p1 are opposite slots: Up(0) and Down(2), or Left(1) and     *)
(* Right(3).                                                               *)
(***************************************************************************)
C24_AxisAlignedOpposite ==
    (/\ d_result # -2
     /\ d_origin # d_point
     /\ d_origin[1] = d_point[1] \/ d_origin[2] = d_point[2]) =>
        /\ {d_result, get_direction_index(d_point, d_origin)} \in {{0, 2}, {1, 3}}
        /\ d_origin[1] = d_point[1] <=> d_result \in {0, 2}
        /\ d_origin[2] = d_point[2] <=> d_result \in {1, 3}

\* a wall of length 3 along the x axis, classified from its right end
C24_Witness ==
    /\ d_origin = Pt(3, 1) /\ d_point = Pt(0, 1)
    /\ d_result = 1
    /\ get_direction_index(d_point, d_origin) = 3

(***************************************************************************)
(* C25: the invalid-code error is never reached.  Every connectivity code  *)
(* build_graphs produces is a string of 4 characters over '0', '1' that is *)
(* in the fixed table, so create_annotations run after build_graphs does   *)
(* not raise from get_edge_code, and every record gets a code of the       *)
(* table.                                                                  *)
(***************************************************************************)
C25_CodesAlwaysInTable ==
    /\ pc # "error"
    /\ \A k \in 1..Len(code_graph) :
          /\ code_graph[k][2] \in AllCodes
          /\ ~get_edge_code_raises(code_graph[k][2])
    /\ \A i \in 1..Len(annotations) : annotations[i].edge_code \in 0..15

\* the records are made and a corner joined to the left and downwards got
\* the edge code 5
C25_Witness ==
    /\ pc = "done"
    /\ \E i \in 1..Len(annotations) :
          /\ annotations[i].edge_code = 5
          /\ DictGet(code_graph, annotations[i].point) = <<"0", "1", "1", "0">>

(***************************************************************************)
(* C26: every segment split_edges_into_segments returns has two distinct   *)
(* endpoints, also for polygons that touch at a corner or whose boundaries *)
(* meet exactly at a polygon vertex: no zero-length segment (p, p) is      *)
(* handed on.                                                              *)
(***************************************************************************)
C26_NoZeroLengthSegment ==
    Resolved => \A s \in geom.unique_segments : s[1] # s[2]

(***************************************************************************)
(* C27: every vertex build_graphs creates has at least one filled          *)
(* adjacency slot, so its connectivity code is never '0000' and            *)
(* create_annotations never emits the edge code 0.                         *)
(***************************************************************************)
C27_NoIsolatedVertex ==
    /\ \A v \in PointKeys(coordinate_graph) :
          \E d \in 1..4 : DictGet(coordinate_graph, v)[d] # NoNeighbor
    /\ \A v \in PointKeys(code_graph) :
          /\ DictGet(code_graph, v) # <<"0", "0", "0", "0">>
          /\ get_edge_code(DictGet(code_graph, v)) # 0
    /\ \A i \in 1..Len(annotations) : annotations[i].edge_code # 0

\* three vertices on a path have their records; an end of the path has
\* one filled slot only
C27_Witness ==
    /\ pc = "done" /\ caller.pc = "first"
    /\ Len(annotations) = 3
    /\ \E i \in 1..3 :
          Cardinality({d \in 1..4 :
              DictGet(coordinate_graph, annotations[i].point)[d] # NoNeighbor}) = 1

\* every segment has two distinct endpoints and no two segments leave the
\* same vertex in the same direction
Unambiguous ==
    /\ \A i \in 1..Len(segments) : segments[i][1] # segments[i][2]
    /\ \A v \in {segments[i][e] : i \in 1..Len(segments), e \in 1..2} : \A d \in 0..3 :
          Cardinality(LeavingIn(v, d)) <= 1

\* the points in the slots of vertex v
Neighbours(v) == Range(DictGet(coordinate_graph, v)) \ {NoNeighbor}

(***************************************************************************)
(* C28: for a segment list with distinct endpoints per segment in which no *)
(* two segments leave the same vertex in the same direction, the adjacency *)
(* build_graphs builds is symmetric: w is in a slot of v if and only if v  *)
(* is in a slot of w.                                                      *)
(***************************************************************************)
C28_AdjacencySymmetric ==
    (Built /\ Unambiguous) =>
        \A v \in PointKeys(coordinate_graph) :
            /\ Neighbours(v) \subseteq PointKeys(coordinate_graph)
            /\ \A w \in PointKeys(coordinate_graph) :
                  w \in Neighbours(v) <=> v \in Neighbours(w)

\* a path of two segments round a corner: the corner has two neighbours
\* and is a neighbour of both
C28_Witness ==
    /\ pc = "built" /\ caller.pc = "first"
    /\ Unambiguous
    /\ Len(segments) = 2
    /\ \E v \in PointKeys(coordinate_graph) :
          /\ Cardinality(Neighbours(v)) = 2
          /\ \A w \in Neighbours(v) : Neighbours(w) = {v}

\* the number of points the BFS has put in the levels of its local quatree
Expanded == LET n[i \in 0..Len(quatree)] ==
                    IF i = 0 THEN 0 ELSE n[i - 1] + Len(quatree[i][2])
            IN  n[Len(quatree)]

\* a graph with a cycle through three vertices
HasCycle ==
    \E a, b, c \in PointKeys(coordinate_graph) :
        /\ a # b /\ b # c /\ a # c
        /\ b \in Range(DictGet(coordinate_graph, a))
        /\ c \in Range(DictGet(coordinate_graph, b))
        /\ a \in Range(DictGet(coordinate_graph, c))

(***************************************************************************)
(* C29: the BFS loop of build_graphs terminates for every non-empty        *)
(* segment list, cycles and self-referencing slots included: no vertex is  *)
(* expanded twice (the levels hold as many points as there are visited     *)
(* vertices), one iteration takes one entry off the queue and appends at   *)
(* most 4, and the loop once entered always reaches the return with the    *)
(* queue empty.                                                            *)
(***************************************************************************)
C29_BfsTerminates ==
    /\ [](pc = "bfs" => Expanded = Cardinality(visited))
    /\ [][BfsStep => /\ Len(queue') <= Len(queue) - 1 + 4
                     /\ Cardinality(visited') <= Cardinality(visited) + 1]_vars
    /\ (pc = "bfs" ~> (pc = "built" /\ queue = <<>>))

\* the BFS has returned on a graph with a cycle through three vertices
C29_Witness ==
    /\ pc = "built" /\ queue = <<>>
    /\ HasCycle
    /\ Cardinality(visited) = 3

\* the base names of the image files of a split set of matched_files
ImageNames(s) == {Stem(matched_files[s][2][1][i]) : i \in 1..Len(matched_files[s][2][1])}

(***************************************************************************)
(* C30: list_matched_files partitions the base names that have both an     *)
(* image file and an annotation file in the folder: the name sets of       *)
(* train, valid and test are pairwise disjoint, their union is the set of  *)
(* common base names, no name is listed twice in a split set, and in each  *)
(* split set the image list and the annotation list have the same length   *)
(* with the same base name at every position.                              *)
(***************************************************************************)
C30_SplitsPartitionCommonNames ==
    m_pc # "idle" =>
        /\ Len(matched_files) = 3
        /\ \A s, t \in 1..3 : s # t => ImageNames(s) \cap ImageNames(t) = {}
        /\ UNION {ImageNames(s) : s \in 1..3} =
              {n \in 1..MaxFiles : <<n, "png">> \in raw_data /\ <<n, "txt">> \in raw_data}
        /\ \A s \in 1..3 :
              LET image_paths == matched_files[s][2][1]
                  annot_paths == matched_files[s][2][2]
              IN  /\ Len(image_paths) = Len(annot_paths)
                  /\ Len(image_paths) = Cardinality(ImageNames(s))
                  /\ \A i \in 1..Len(image_paths) :
                        /\ Stem(image_paths[i]) = Stem(annot_paths[i])
                        /\ image_paths[i] \in raw_data
                        /\ annot_paths[i] \in raw_data

\* a folder of three matched pairs, split two, none, one, and the split
\* sets all processed
C30_Witness ==
    /\ m_pc = "finished"
    /\ Cardinality(raw_data) = 6
    /\ Cardinality(ImageNames(1)) = 2
    /\ ImageNames(2) = {}
    /\ Cardinality(ImageNames(3)) = 1
    /\ ImageNames(3) \cap ImageNames(1) = {}

====
